---------------------------- MODULE Spec2Model ----------------------------
(***************************************************************************)
(* Exchange adapters of exchnage.py: bit, biconomy and toobit.             *)
(*                                                                         *)
(* Python strings are sequences of one-character strings, Python dicts    *)
(* are sequences of [k, v] records in insertion order, and a JSON value   *)
(* is a tagged record: t is "absent" (key missing), "null", "num" or      *)
(* "str".                                                                  *)
(*                                                                         *)
(* Three specifications:                                                   *)
(*   Spec      one adapter instance driven by a caller, one step per       *)
(*             await of an HTTP response;                                  *)
(*   SpecConv  _convert_symbol_to_ccxt applied once and twice;             *)
(*   SpecNorm  normalize_data applied to one raw payload.                  *)
(***************************************************************************)
EXTENDS Integers, Sequences, FiniteSets, TLC

VARIABLES
    exch,          \* the adapter class of the instance: "bit", "biconomy", "toobit"
    phase,         \* which specification's step the state is at
    pc,            \* where the running coroutine awaits: "idle" when none runs
    op,            \* the caller's current or last call
    markets,       \* self.markets
    queue,         \* what the for loop over self.markets.values() has left
    result,        \* fetch_tickers' local result
    outcome,       \* how the last call ended: "none", "ok" or the exception
    returned,      \* what the last call returned to the caller
    log,           \* the calls and HTTP requests of the current call, in order
    marketsBefore, \* self.markets when the current call began
    startedEmpty,  \* whether self.markets was empty when the current call began
    lastListing,   \* the listing the latest load_markets processed
    loadComplete,  \* whether that load wrote every entry of its listing
    failAt,        \* position in log of the request answered non-200, 0 if none
    allEchoed,     \* every per-market response named the requested market
    reloaded,      \* this call's load processed the same listing as the load before it
    cin,           \* SpecConv: the input symbol
    cout1,         \* SpecConv: the symbol converted once
    cout2,         \* SpecConv: the symbol converted twice
    payload,       \* SpecNorm: the raw payload
    nout           \* SpecNorm: normalize_data's result

vars == <<exch, phase, pc, op, markets, queue, result, outcome, returned, log,
          marketsBefore, startedEmpty, lastListing, loadComplete, failAt,
          allEchoed, reloaded, cin, cout1, cout2, payload, nout>>

adapterVars == <<pc, op, markets, queue, result, outcome, returned, log,
                 marketsBefore, startedEmpty, lastListing, loadComplete,
                 failAt, allEchoed, reloaded>>

convVars == <<cin, cout1, cout2>>

normVars == <<payload, nout>>

(***************************************************************************)
(* Bounds.                                                                 *)
(***************************************************************************)
MaxListing == 3     \* entries in one markets listing
MaxBulk == 2        \* tickers in one bulk payload
MaxTokens == 3      \* tokens concatenated into one input symbol

HttpOk == 200

Exchanges == {"bit", "biconomy", "toobit"}
Discovery == {"bit", "toobit"}

(***************************************************************************)
(* Strings.                                                                *)
(***************************************************************************)
Dash == <<"-">>
Underscore == <<"_">>
Slash == <<"/">>
USDT == <<"U", "S", "D", "T">>
SlashUSDT == <<"/", "U", "S", "D", "T">>

RECURSIVE Replace(_, _, _)
Replace(s, old, new) ==
    IF Len(s) < Len(old) THEN s
    ELSE IF SubSeq(s, 1, Len(old)) = old
         THEN new \o Replace(SubSeq(s, Len(old) + 1, Len(s)), old, new)
         ELSE <<Head(s)>> \o Replace(Tail(s), old, new)

EndsWith(s, suffix) ==
    /\ Len(s) >= Len(suffix)
    /\ SubSeq(s, Len(s) - Len(suffix) + 1, Len(s)) = suffix

(***************************************************************************)
(* JSON values.                                                            *)
(***************************************************************************)
Absent == [t |-> "absent", s |-> <<>>, n |-> 0]
Null == [t |-> "null", s |-> <<>>, n |-> 0]
Num(n) == [t |-> "num", s |-> <<>>, n |-> n]
Str(s) == [t |-> "str", s |-> s, n |-> 0]

\* isinstance(v, str)
IsStr(v) == v.t = "str"

\* Python truthiness of a value read with dict.get(key)
Truthy(v) ==
    CASE v.t = "str" -> v.s # <<>>
      [] v.t = "num" -> v.n # 0
      [] OTHER -> FALSE

Digits == <<"0", "1", "2", "3", "4", "5", "6", "7", "8", "9">>

IsDigit(c) == \E i \in DOMAIN Digits : Digits[i] = c

DigitValue(c) == (CHOOSE i \in DOMAIN Digits : Digits[i] = c) - 1

RECURSIVE ParseDigits(_, _)
ParseDigits(s, acc) ==
    IF s = <<>> THEN acc
    ELSE ParseDigits(Tail(s), 10 * acc + DigitValue(Head(s)))

\* float(v): None is a TypeError, a string that is no number a ValueError
ToFloat(v) ==
    CASE v.t = "num" -> [err |-> "none", x |-> v.n]
      [] v.t = "str" ->
            IF v.s # <<>> /\ \A i \in DOMAIN v.s : IsDigit(v.s[i])
            THEN [err |-> "none", x |-> ParseDigits(v.s, 0)]
            ELSE [err |-> "ValueError", x |-> 0]
      [] OTHER -> [err |-> "TypeError", x |-> 0]

\* float(d.get(key) or 0)
FloatOrZero(v) == IF Truthy(v) THEN ToFloat(v) ELSE [err |-> "none", x |-> 0]

\* float(d.get(key, 0))
FloatDefaultZero(v) ==
    IF v.t = "absent" THEN [err |-> "none", x |-> 0] ELSE ToFloat(v)

(***************************************************************************)
(* Dicts.                                                                  *)
(***************************************************************************)
Keys(d) == {d[i].k : i \in DOMAIN d}

Values(d) == [i \in DOMAIN d |-> d[i].v]

HasKey(d, k) == \E i \in DOMAIN d : d[i].k = k

\* d[k] = v
DictSet(d, k, v) ==
    IF HasKey(d, k)
    THEN [i \in DOMAIN d |-> IF d[i].k = k THEN [k |-> k, v |-> v] ELSE d[i]]
    ELSE Append(d, [k |-> k, v |-> v])

\* d.update(other)
RECURSIVE DictUpdate(_, _)
DictUpdate(d, other) ==
    IF other = <<>> THEN d
    ELSE DictUpdate(DictSet(d, Head(other).k, Head(other).v), Tail(other))

(***************************************************************************)
(* _convert_symbol_to_ccxt.                                                *)
(***************************************************************************)
bit_convert_symbol_to_ccxt(symbols) ==
    IF IsStr(symbols)
    THEN [err |-> "none", s |-> Replace(symbols.s, Dash, Slash)]
    ELSE [err |-> "TypeError", s |-> <<>>]

biconomy_convert_symbol_to_ccxt(symbols) ==
    IF IsStr(symbols)
    THEN [err |-> "none", s |-> Replace(symbols.s, Underscore, Slash)]
    ELSE [err |-> "TypeError", s |-> <<>>]

toobit_convert_symbol_to_ccxt(symbols) ==
    IF IsStr(symbols)
    THEN [err |-> "none",
          s |-> IF EndsWith(symbols.s, USDT)
                THEN Replace(symbols.s, USDT, SlashUSDT)
                ELSE symbols.s]
    ELSE [err |-> "TypeError", s |-> <<>>]

convert_symbol_to_ccxt(e, symbols) ==
    CASE e = "bit" -> bit_convert_symbol_to_ccxt(symbols)
      [] e = "biconomy" -> biconomy_convert_symbol_to_ccxt(symbols)
      [] e = "toobit" -> toobit_convert_symbol_to_ccxt(symbols)

(***************************************************************************)
(* normalize_data.  A payload is the sequence of raw tickers it carries:   *)
(* bit reads the one under "data" (none when the key is missing), toobit   *)
(* reads data[0], biconomy reads every element of "ticker".                *)
(***************************************************************************)
TickerInfo(last, baseVolume, quoteVolume) ==
    [last |-> last, baseVolume |-> baseVolume, quoteVolume |-> quoteVolume]

EmptyTicker == [sym |-> Absent, last |-> Absent, vol |-> Absent, qvol |-> Absent]

Raise(e) == [err |-> e, map |-> <<>>]

\* the first exception of the four evaluations, in the order Python makes them
FirstErr(errs) ==
    IF \A i \in DOMAIN errs : errs[i] = "none" THEN "none"
    ELSE errs[CHOOSE i \in DOMAIN errs :
                 /\ errs[i] # "none"
                 /\ \A j \in 1..(i - 1) : errs[j] = "none"]

bit_normalize_data(data) ==
    LET res == IF data = <<>> THEN EmptyTicker ELSE Head(data)
        symbol == bit_convert_symbol_to_ccxt(res.sym)
        last == FloatOrZero(res.last)
        baseVolume == FloatOrZero(res.vol)
        quoteVolume == FloatOrZero(res.qvol)
        e == FirstErr(<<symbol.err, last.err, baseVolume.err, quoteVolume.err>>)
    IN  IF e # "none" THEN Raise(e)
        ELSE [err |-> "none",
              map |-> <<[k |-> symbol.s,
                         v |-> TickerInfo(last.x, baseVolume.x, quoteVolume.x)]>>]

\* ticker.get("symbol", '')
SymbolOrEmpty(v) == IF v.t = "absent" THEN Str(<<>>) ELSE v

RECURSIVE biconomy_normalize_loop(_, _)
biconomy_normalize_loop(normalized_data, tickers) ==
    IF tickers = <<>> THEN [err |-> "none", map |-> normalized_data]
    ELSE LET ticker == Head(tickers)
             symbol == biconomy_convert_symbol_to_ccxt(SymbolOrEmpty(ticker.sym))
             last == FloatDefaultZero(ticker.last)
             baseVolume == FloatDefaultZero(ticker.vol)
             e == FirstErr(<<symbol.err, last.err, baseVolume.err>>)
         IN  IF e # "none" THEN Raise(e)
             ELSE biconomy_normalize_loop(
                      DictSet(normalized_data, symbol.s,
                              TickerInfo(last.x, baseVolume.x, 0)),
                      Tail(tickers))

biconomy_normalize_data(data) == biconomy_normalize_loop(<<>>, data)

toobit_normalize_data(data) ==
    IF data = <<>> THEN Raise("IndexError")
    ELSE LET res == Head(data)
             symbol == toobit_convert_symbol_to_ccxt(res.sym)
             last == FloatDefaultZero(res.last)
             baseVolume == FloatDefaultZero(res.vol)
             quoteVolume == FloatDefaultZero(res.qvol)
             e == FirstErr(<<symbol.err, last.err, baseVolume.err, quoteVolume.err>>)
         IN  IF e # "none" THEN Raise(e)
             ELSE [err |-> "none",
                   map |-> <<[k |-> symbol.s,
                              v |-> TickerInfo(last.x, baseVolume.x, quoteVolume.x)]>>]

normalize_data(e, data) ==
    CASE e = "bit" -> bit_normalize_data(data)
      [] e = "biconomy" -> biconomy_normalize_data(data)
      [] e = "toobit" -> toobit_normalize_data(data)

(***************************************************************************)
(* load_markets, after its fetch: the loop over the listing.               *)
(***************************************************************************)
RECURSIVE bit_load_loop(_, _)
bit_load_loop(m, pairs) ==
    IF pairs = <<>> THEN [err |-> "none", markets |-> m]
    ELSE LET symbol == Head(pairs).pair
         IN  IF Truthy(symbol)
             THEN LET c == bit_convert_symbol_to_ccxt(symbol)
                  IN  IF c.err # "none" THEN [err |-> c.err, markets |-> m]
                      ELSE bit_load_loop(DictSet(m, c.s, symbol.s), Tail(pairs))
             ELSE bit_load_loop(m, Tail(pairs))

RECURSIVE toobit_load_loop(_, _)
toobit_load_loop(m, symbols) ==
    IF symbols = <<>> THEN [err |-> "none", markets |-> m]
    ELSE LET base == Head(symbols).baseAsset
             quote == Head(symbols).quoteAsset
         IN  IF base.t = "absent" \/ quote.t = "absent"
             THEN [err |-> "KeyError", markets |-> m]
             ELSE IF Truthy(base) /\ Truthy(quote)
             THEN IF IsStr(base) /\ IsStr(quote)
                  THEN toobit_load_loop(
                           DictSet(m, base.s \o Slash \o quote.s, base.s \o quote.s),
                           Tail(symbols))
                  ELSE [err |-> "TypeError", markets |-> m]
             ELSE toobit_load_loop(m, Tail(symbols))

bit_load_markets_fresh(m, listing) == bit_load_loop(<<>>, listing)

bit_load_markets(m, listing) == bit_load_loop(m, listing)

toobit_load_markets(m, listing) == toobit_load_loop(m, listing)

load_markets(e, m, listing) ==
    CASE e = "bit" -> bit_load_markets(m, listing)
      [] e = "toobit" -> toobit_load_markets(m, listing)
      [] OTHER -> [err |-> "none", markets |-> m]

\* if not self.markets
NeedsLoadAlways(m) == TRUE

NeedsLoad(m) == m = <<>>

\* resp and resp.status == 200
StatusOkAny(status) == TRUE

StatusOk(status) == status = HttpOk

(***************************************************************************)
(* What the exchange may answer.                                           *)
(***************************************************************************)
BTC == <<"B", "T", "C">>
ETH == <<"E", "T", "H">>
BTC_USDT == BTC \o Dash \o USDT
ETH_BTC == ETH \o Dash \o BTC

Statuses == {HttpOk, 500}

\* entries of bit's spot/v1/instruments and of toobit's api/v1/exchangeInfo
BitEntries ==
    {[pair |-> Str(BTC_USDT)], [pair |-> Str(ETH_BTC)],
     [pair |-> Num(5)], [pair |-> Null]}

ToobitEntries ==
    {[baseAsset |-> Str(BTC), quoteAsset |-> Str(USDT)],
     [baseAsset |-> Str(ETH), quoteAsset |-> Str(BTC)],
     [baseAsset |-> Absent, quoteAsset |-> Str(USDT)],
     [baseAsset |-> Str(<<>>), quoteAsset |-> Str(USDT)]}

BitListings == UNION {[1..n -> BitEntries] : n \in 0..MaxListing}

ToobitListings == UNION {[1..n -> ToobitEntries] : n \in 0..MaxListing}

Listings(e) == IF e = "bit" THEN BitListings ELSE ToobitListings

\* the body of an answer to the listing request: an error answer lists nothing
ListingBodies(e, status) == IF status = HttpOk THEN Listings(e) ELSE {<<>>}

\* the answers to the ticker request of one market
MarketTickers(native) ==
    {[sym |-> s, last |-> Str(<<"7">>), vol |-> v, qvol |-> Absent] :
        s \in {Str(native), Str(ETH \o USDT), Null}, v \in {Num(1), Absent}}

\* the body of an answer to a ticker request: an error answer has no ticker field
TickerBodies(native, status) ==
    IF status = HttpOk THEN {<<t>> : t \in MarketTickers(native)}
    ELSE {<<EmptyTicker>>}

\* the tickers of biconomy's api/v1/tickers
BulkTickers ==
    {[sym |-> Str(<<"e", "_", "u">>), last |-> Str(<<"7">>), vol |-> Num(1), qvol |-> Absent],
     [sym |-> Str(<<"E", "_", "U">>), last |-> Absent, vol |-> Absent, qvol |-> Absent],
     [sym |-> Absent, last |-> Num(1), vol |-> Absent, qvol |-> Absent]}

BulkPayloads == UNION {[1..n -> BulkTickers] : n \in 0..MaxBulk}

BulkBodies(status) == IF status = HttpOk THEN BulkPayloads ELSE {<<>>}

\* the keys a listing registers when every entry of it is processed
RegistrableKeys(e, listing) ==
    IF e = "bit"
    THEN {bit_convert_symbol_to_ccxt(listing[i].pair).s :
             i \in {j \in DOMAIN listing :
                       Truthy(listing[j].pair) /\ IsStr(listing[j].pair)}}
    ELSE {listing[i].baseAsset.s \o Slash \o listing[i].quoteAsset.s :
             i \in {j \in DOMAIN listing :
                       /\ Truthy(listing[j].baseAsset) /\ IsStr(listing[j].baseAsset)
                       /\ Truthy(listing[j].quoteAsset) /\ IsStr(listing[j].quoteAsset)}}

(***************************************************************************)
(* The adapter instance.                                                   *)
(***************************************************************************)
NoReturn == [some |-> FALSE, map |-> <<>>]
Return(m) == [some |-> TRUE, map |-> m]

Event(e, arg) == [e |-> e, arg |-> arg]

NoConv == <<>>
NoNorm == <<>>

Init ==
    /\ exch \in Exchanges
    /\ phase = "adapter"
    /\ pc = "idle"
    /\ op = "none"
    /\ markets = <<>>
    /\ queue = <<>>
    /\ result = <<>>
    /\ outcome = "none"
    /\ returned = NoReturn
    /\ log = <<>>
    /\ marketsBefore = <<>>
    /\ startedEmpty = TRUE
    /\ lastListing = <<>>
    /\ loadComplete = FALSE
    /\ failAt = 0
    /\ allEchoed = TRUE
    /\ reloaded = FALSE
    /\ cin = NoConv /\ cout1 = NoConv /\ cout2 = NoConv
    /\ payload = NoNorm /\ nout = NoNorm

\* what every call sets as it begins
Begin(o) ==
    /\ op' = o
    /\ marketsBefore' = markets
    /\ startedEmpty' = (markets = <<>>)
    /\ result' = <<>>
    /\ returned' = NoReturn
    /\ loadComplete' = FALSE
    /\ failAt' = 0
    /\ allEchoed' = TRUE
    /\ reloaded' = FALSE

\* the caller awaits exchange.load_markets()
call_load_markets ==
    /\ phase = "adapter"
    /\ pc = "idle"
    /\ Begin("load_markets")
    /\ log' = <<Event("load_markets", <<>>)>>
    /\ queue' = <<>>
    /\ IF exch \in Discovery
       THEN pc' = "load_markets" /\ outcome' = "none"
       ELSE pc' = "idle" /\ outcome' = "ok"
    /\ UNCHANGED <<exch, phase, markets, lastListing, convVars, normVars>>

\* the caller awaits exchange.fetch_tickers(): up to its first await
call_fetch_tickers ==
    /\ phase = "adapter"
    /\ pc = "idle"
    /\ Begin("fetch_tickers")
    /\ outcome' = "none"
    /\ CASE exch = "biconomy" ->
              pc' = "bulk" /\ log' = <<>> /\ queue' = <<>>
         [] exch # "biconomy" /\ NeedsLoad(markets) ->
              /\ pc' = "load_markets"
              /\ log' = <<Event("load_markets", <<>>)>>
              /\ queue' = <<>>
         [] OTHER ->
              pc' = "tickers" /\ log' = <<>> /\ queue' = Values(markets)
    /\ UNCHANGED <<exch, phase, markets, lastListing, convVars, normVars>>

\* load_markets resumes with the answer to its listing request
load_markets_response(status, listing) ==
    /\ phase = "adapter"
    /\ pc = "load_markets"
    /\ log' = Append(log, Event("listing", <<>>))
    /\ failAt' = IF status # HttpOk THEN Len(log) + 1 ELSE failAt
    /\ IF ~StatusOk(status)
       THEN /\ pc' = "idle"
            /\ outcome' = "FetchError"
            /\ UNCHANGED <<markets, lastListing, loadComplete, queue, returned,
                           reloaded>>
       ELSE LET r == load_markets(exch, markets, listing)
            IN  /\ markets' = r.markets
                /\ lastListing' = listing
                /\ reloaded' = (markets # <<>> /\ listing = lastListing)
                /\ loadComplete' = (RegistrableKeys(exch, listing) \subseteq Keys(r.markets))
                /\ IF r.err # "none"
                   THEN /\ pc' = "idle"
                        /\ outcome' = r.err
                        /\ UNCHANGED <<queue, returned>>
                   ELSE IF op = "load_markets"
                   THEN /\ pc' = "idle"
                        /\ outcome' = "ok"
                        /\ UNCHANGED <<queue, returned>>
                   ELSE IF r.markets = <<>>
                   THEN /\ pc' = "idle"
                        /\ outcome' = "ok"
                        /\ returned' = Return(<<>>)
                        /\ UNCHANGED queue
                   ELSE /\ pc' = "tickers"
                        /\ queue' = Values(r.markets)
                        /\ UNCHANGED <<outcome, returned>>
    /\ UNCHANGED <<exch, phase, op, result, marketsBefore, startedEmpty, allEchoed,
                   convVars, normVars>>

\* one turn of fetch_tickers' loop: the request of the next market and its answer
ticker_response(status, data) ==
    /\ phase = "adapter"
    /\ pc = "tickers"
    /\ queue # <<>>
    /\ log' = Append(log, Event("ticker", Head(queue)))
    /\ failAt' = IF status # HttpOk THEN Len(log) + 1 ELSE failAt
    /\ IF ~StatusOk(status)
       THEN /\ pc' = "idle"
            /\ outcome' = "FetchError"
            /\ UNCHANGED <<queue, result, returned, allEchoed>>
       ELSE LET n == normalize_data(exch, data)
            IN  /\ allEchoed' = (allEchoed /\ Head(data).sym = Str(Head(queue)))
                /\ IF n.err # "none"
                   THEN /\ pc' = "idle"
                        /\ outcome' = n.err
                        /\ UNCHANGED <<queue, result, returned>>
                   ELSE /\ result' = DictUpdate(result, n.map)
                        /\ queue' = Tail(queue)
                        /\ IF Tail(queue) = <<>>
                           THEN /\ pc' = "idle"
                                /\ outcome' = "ok"
                                /\ returned' = Return(DictUpdate(result, n.map))
                           ELSE UNCHANGED <<pc, outcome, returned>>
    /\ UNCHANGED <<exch, phase, op, markets, marketsBefore, startedEmpty, lastListing,
                   loadComplete, reloaded, convVars, normVars>>

\* biconomy's fetch_tickers resumes with the answer to its one request
bulk_response(status, data) ==
    /\ phase = "adapter"
    /\ pc = "bulk"
    /\ log' = Append(log, Event("bulk", <<>>))
    /\ failAt' = IF status # HttpOk THEN Len(log) + 1 ELSE failAt
    /\ pc' = "idle"
    /\ IF ~StatusOk(status)
       THEN outcome' = "FetchError" /\ UNCHANGED <<result, returned>>
       ELSE LET n == normalize_data(exch, data)
            IN  IF n.err # "none"
                THEN outcome' = n.err /\ UNCHANGED <<result, returned>>
                ELSE outcome' = "ok" /\ result' = n.map /\ returned' = Return(n.map)
    /\ UNCHANGED <<exch, phase, op, markets, queue, marketsBefore, startedEmpty,
                   lastListing, loadComplete, allEchoed, reloaded,
                   convVars, normVars>>

LoadStep == \E status \in Statuses : \E listing \in ListingBodies(exch, status) :
                load_markets_response(status, listing)

TickerStep ==
    /\ pc = "tickers"
    /\ queue # <<>>
    /\ \E status \in Statuses : \E data \in TickerBodies(Head(queue), status) :
           ticker_response(status, data)

BulkStep == \E status \in Statuses : \E data \in BulkBodies(status) :
                bulk_response(status, data)

Next ==
    \/ call_load_markets
    \/ call_fetch_tickers
    \/ LoadStep
    \/ TickerStep
    \/ BulkStep

Spec == Init /\ [][Next]_vars

(***************************************************************************)
(* SpecConv: _convert_symbol_to_ccxt on its own, applied once and then     *)
(* again to its own result.                                                *)
(***************************************************************************)
Tokens == {<<"b", "t", "c">>, BTC, <<"u", "s", "d", "t">>, USDT,
           Dash, Underscore, Slash}

RECURSIVE Concat(_)
Concat(ss) == IF ss = <<>> THEN <<>> ELSE Head(ss) \o Concat(Tail(ss))

ConvInputs == {Concat(ts) : ts \in UNION {[1..n -> Tokens] : n \in 0..MaxTokens}}

InitConv ==
    /\ exch \in Exchanges
    /\ phase = "conv0"
    /\ cin \in ConvInputs
    /\ cout1 = NoConv
    /\ cout2 = NoConv
    /\ pc = "idle" /\ op = "none" /\ markets = <<>> /\ queue = <<>>
    /\ result = <<>> /\ outcome = "none" /\ returned = NoReturn /\ log = <<>>
    /\ marketsBefore = <<>> /\ startedEmpty = TRUE /\ lastListing = <<>>
    /\ loadComplete = FALSE /\ failAt = 0 /\ allEchoed = TRUE
    /\ reloaded = FALSE
    /\ payload = NoNorm /\ nout = NoNorm

convert_once ==
    /\ phase = "conv0"
    /\ cout1' = convert_symbol_to_ccxt(exch, Str(cin)).s
    /\ phase' = "conv1"
    /\ UNCHANGED <<exch, cin, cout2, adapterVars, normVars>>

convert_twice ==
    /\ phase = "conv1"
    /\ cout2' = convert_symbol_to_ccxt(exch, Str(cout1)).s
    /\ phase' = "conv2"
    /\ UNCHANGED <<exch, cin, cout1, adapterVars, normVars>>

NextConv == convert_once \/ convert_twice

SpecConv == InitConv /\ [][NextConv]_vars

(***************************************************************************)
(* SpecNorm: normalize_data on one raw payload.                            *)
(***************************************************************************)
SymVals == {Str(BTC_USDT), Str(<<"e", "_", "u">>), Str(BTC \o USDT),
            Null, Num(5), Absent}

NumVals == {Absent, Null, Num(3), Str(<<"3", "0">>), Str(<<"x">>)}

NormTickers(e) ==
    [sym : SymVals, last : NumVals, vol : NumVals,
     qvol : IF e = "biconomy" THEN {Absent} ELSE NumVals]

NormPayloads(e) ==
    UNION {[1..n -> NormTickers(e)] :
              n \in 0..(IF e = "biconomy" THEN MaxBulk ELSE 1)}

InitNorm ==
    /\ exch \in Exchanges
    /\ phase = "norm0"
    /\ payload \in NormPayloads(exch)
    /\ nout = NoNorm
    /\ pc = "idle" /\ op = "none" /\ markets = <<>> /\ queue = <<>>
    /\ result = <<>> /\ outcome = "none" /\ returned = NoReturn /\ log = <<>>
    /\ marketsBefore = <<>> /\ startedEmpty = TRUE /\ lastListing = <<>>
    /\ loadComplete = FALSE /\ failAt = 0 /\ allEchoed = TRUE
    /\ reloaded = FALSE
    /\ cin = NoConv /\ cout1 = NoConv /\ cout2 = NoConv

normalize ==
    /\ phase = "norm0"
    /\ nout' = normalize_data(exch, payload)
    /\ phase' = "norm1"
    /\ UNCHANGED <<exch, payload, adapterVars, convVars>>

NextNorm == normalize

SpecNorm == InitNorm /\ [][NextNorm]_vars

(***************************************************************************)
(* Properties of the adapter instance (Spec).                              *)
(***************************************************************************)
LoadCalls(l) == Cardinality({i \in DOMAIN l : l[i].e = "load_markets"})

IsTicker(ev) == ev.e = "ticker"

\* the native identifiers of the per-market requests, in the order issued
TickerRequests(l) ==
    LET ts == SelectSeq(l, IsTicker) IN [i \in DOMAIN ts |-> ts[i].arg]

Failed == pc = "idle" /\ outcome \notin {"none", "ok"}

\* C1: on bit and toobit a fetch_tickers call that begins with an empty
\* registry makes exactly one load_markets call, and makes it before any
\* per-market request; a call that begins with a non-empty registry makes
\* no load_markets call.
C1_LazyLoadOnce ==
    (exch \in Discovery /\ op = "fetch_tickers") =>
        /\ LoadCalls(log) = (IF startedEmpty THEN 1 ELSE 0)
        /\ \A i \in DOMAIN log :
              (startedEmpty /\ log[i].e = "ticker") =>
                  \E j \in 1..(i - 1) : log[j].e = "load_markets"

\* a fetch_tickers call begun with a registry of two markets has made its
\* requests and returned its mapping
C1_Witness ==
    /\ exch \in Discovery
    /\ op = "fetch_tickers"
    /\ ~startedEmpty
    /\ Len(marketsBefore) = 2
    /\ pc = "idle"
    /\ outcome = "ok"
    /\ TickerRequests(log) # <<>>

\* C2: once a request of fetch_tickers is answered non-200 the call has
\* ended with the fetch error, has returned no mapping, and the failed
\* request is the last one it issued.
C2_FetchErrorPropagates ==
    (op = "fetch_tickers" /\ failAt > 0) =>
        /\ pc = "idle"
        /\ outcome = "FetchError"
        /\ returned = NoReturn
        /\ failAt = Len(log)

\* a per-market request failed after an earlier one was aggregated
C2_Witness ==
    /\ op = "fetch_tickers"
    /\ failAt > 1
    /\ result # <<>>
    /\ outcome = "FetchError"

\* C3: after a failed call the registry is what it was before the call or
\* holds every entry of the listing.
C3_RegistryAllOrNothing ==
    Failed => (markets = marketsBefore \/ loadComplete)

\* C4: after a successful fetch_tickers on bit or toobit whose responses all
\* named the requested market, one request was issued per registry entry
\* with its native identifier and the returned mapping has the registry's
\* keys.
C4_ResultCoversRegistry ==
    (/\ exch \in Discovery
     /\ op = "fetch_tickers"
     /\ pc = "idle"
     /\ outcome = "ok"
     /\ allEchoed) =>
        /\ TickerRequests(log) = Values(markets)
        /\ Keys(returned.map) = Keys(markets)

\* C9: the registry is empty at construction, only a load_markets step
\* writes it, no step removes a key from it, and a load that processes the
\* same listing as the load before it leaves it as it was.
C9_RegistryLoadOnly ==
    /\ markets = <<>>
    /\ [][/\ Keys(markets) \subseteq Keys(markets')
          /\ (markets' # markets => pc = "load_markets")
          /\ (pc = "load_markets" /\ lastListing' = lastListing) =>
                 markets' = markets]_vars

\* load_markets has run again on the listing it processed before, with
\* entries in the registry
C9_Witness ==
    /\ op = "load_markets"
    /\ pc = "idle"
    /\ outcome = "ok"
    /\ reloaded
    /\ Len(markets) > 1

\* C10: no two per-market requests of one fetch_tickers call are issued one
\* right after the other; a pacing step lies between them.
C10_PacedRequests ==
    \A i \in 1..(Len(log) - 1) : ~(IsTicker(log[i]) /\ IsTicker(log[i + 1]))

(***************************************************************************)
(* Properties of _convert_symbol_to_ccxt (SpecConv).                       *)
(***************************************************************************)
LowerCase == <<"a", "b", "c", "d", "e", "f", "g", "h", "i", "j", "k", "l", "m",
               "n", "o", "p", "q", "r", "s", "t", "u", "v", "w", "x", "y", "z">>
UpperCase == <<"A", "B", "C", "D", "E", "F", "G", "H", "I", "J", "K", "L", "M",
               "N", "O", "P", "Q", "R", "S", "T", "U", "V", "W", "X", "Y", "Z">>

UpperChar(c) ==
    IF \E i \in DOMAIN LowerCase : LowerCase[i] = c
    THEN UpperCase[CHOOSE i \in DOMAIN LowerCase : LowerCase[i] = c]
    ELSE c

Upper(s) == [i \in DOMAIN s |-> UpperChar(s[i])]

Delimiters == {"-", "_", "/"}

IsAlnum(s) == s # <<>> /\ \A i \in DOMAIN s : s[i] \notin Delimiters

\* s is BASE, the delimiter d, QUOTE
Delimited(s, d) ==
    \E i \in DOMAIN s :
        /\ s[i] = d
        /\ IsAlnum(SubSeq(s, 1, i - 1))
        /\ IsAlnum(SubSeq(s, i + 1, Len(s)))

WithSlash(s, d) == [i \in DOMAIN s |-> IF s[i] = d THEN "/" ELSE s[i]]

KnownDelimiter(e) == IF e = "bit" THEN "-" ELSE "_"

Converted == phase \in {"conv1", "conv2"}

\* C5: bit and biconomy turn a symbol written BASE, their delimiter, QUOTE
\* in any case into the uppercase BASE/QUOTE.
C5_UppercaseCanonical ==
    (/\ Converted
     /\ exch \in {"bit", "biconomy"}
     /\ Delimited(cin, KnownDelimiter(exch))) =>
        cout1 = Upper(WithSlash(cin, KnownDelimiter(exch)))

\* C6: on a symbol that contains "/" a second conversion changes nothing,
\* and a canonical BASE/QUOTE symbol is returned as it is.
C6_ConvertIdempotent ==
    (phase = "conv2" /\ \E i \in DOMAIN cin : cin[i] = "/") =>
        /\ cout2 = cout1
        /\ (Delimited(cin, "/") /\ Upper(cin) = cin) => cout1 = cin

(***************************************************************************)
(* Properties of normalize_data (SpecNorm).                                *)
(***************************************************************************)
\* a numeric field that is absent or null
Missing(v) == v.t \in {"absent", "null"}

\* a numeric field normalize_data can read: missing, a number, or its text
Readable(v) == Missing(v) \/ ToFloat(v).err = "none"

\* C7: when a payload's numeric fields are absent or null (and nothing else
\* is wrong with it) normalize_data succeeds and reports 0 for them.
C7_MissingFieldIsZero ==
    (/\ phase = "norm1"
     /\ Len(payload) = 1
     /\ IsStr(payload[1].sym)
     /\ Readable(payload[1].last) /\ Readable(payload[1].vol)
     /\ Readable(payload[1].qvol)
     /\ Missing(payload[1].last) \/ Missing(payload[1].vol) \/ Missing(payload[1].qvol)) =>
        /\ nout.err = "none"
        /\ Len(nout.map) = 1
        /\ Missing(payload[1].last) => nout.map[1].v.last = 0
        /\ Missing(payload[1].vol) => nout.map[1].v.baseVolume = 0
        /\ Missing(payload[1].qvol) => nout.map[1].v.quoteVolume = 0

\* C8: when the symbol of a raw ticker is not a string (null, a number, or
\* missing) normalize_data fails with the invalid-type error and produces
\* no entry.
C8_NonStringSymbolRejected ==
    (/\ phase = "norm1"
     /\ payload # <<>>
     /\ ~IsStr(payload[1].sym)) =>
        /\ nout.err = "TypeError"
        /\ nout.map = <<>>

=============================================================================
